---- MODULE Spec2Model ----
(***************************************************************************)
(* Retree: the mutation-tracking and change-propagation engine.            *)
(*                                                                         *)
(* A raw object is a node id.  Every wrapped node has one base proxy       *)
(* (buildProxy) and a current reproxy (the snapshot, updateReproxyNode).   *)
(* A snapshot reference is the pair (node, version): updateReproxyNode     *)
(* builds a new Proxy object each time, so the version grows by one.       *)
(***************************************************************************)
EXTENDS Integers, Sequences, FiniteSets, TLC

\* ---------------------------------------------------------------- bounds
MaxOps == 2          \* writes and deletes in one behaviour
NumFresh == 1        \* raw objects that are not part of the initial tree
MaxListeners == 1    \* calls of Retree.on in one behaviour

\* ---------------------------------------------------------------- values
Keys == {"a", "b"}
KeySeq == <<"a", "b">>

Abs == [t |-> "abs", v |-> 0]            \* the property does not exist
Undef == [t |-> "undef", v |-> 0]        \* undefined
Null == [t |-> "null", v |-> 0]          \* null: typeof null === "object"
Prim(i) == [t |-> "prim", v |-> i]       \* a number; 0 is falsy, 1 is truthy
Raw(c) == [t |-> "raw", v |-> c]         \* the raw (unproxied) object c
Px(c) == [t |-> "px", v |-> c]           \* the base proxy of node c
Snap(c, ver) == [t |-> "snap", v |-> c, ver |-> ver]  \* a reproxy of node c
Err == [t |-> "err", v |-> 0]            \* the read throws a TypeError

\* what a JS read of a stored value yields: an absent property reads undefined
JsVal(x) == IF x.t = "abs" THEN Undef ELSE x
Truthy(x) == \/ x.t \in {"raw", "px", "snap"}
             \/ (x.t = "prim" /\ x.v # 0)
IsObject(x) == x.t \in {"raw", "px", "snap"}

\* the raw objects that exist when the program starts: the root 1 holds 2,
\* 2 holds 3; one more raw object per NumFresh that no tree holds yet
InitRaw == <<[a |-> Raw(2), b |-> Prim(0)],
             [a |-> Raw(3), b |-> Prim(1)],
             [a |-> Prim(0), b |-> Abs]>>
FreshRaw == [a |-> Prim(0), b |-> Abs]
NumInit == Len(InitRaw)
Nodes == 1..(NumInit + NumFresh)
Lids == 1..MaxListeners

NullParent == [obj |-> FALSE, proxyNode |-> 0, propName |-> "null"]

VARIABLES
    wrapped,               \* raw objects that have a base proxy
    raw,                   \* raw[n][k]: the value stored in the target object
    children,              \* proxiedChildrenKey of n's handler: k -> node or 0
    parentLink,            \* proxiedParentKey of n's handler (IProxyParent or null)
    reproxy,               \* reproxyMap: version of n's current snapshot (0: none)
    snapOk,                \* the current snapshot was built on the base proxy
    offBase,               \* the snapshots of n that were built on a snapshot
    built,                 \* how many base proxies buildProxy made for raw n
    notified,              \* the listener lists that the step copied and ran
    nodeChangedListeners,  \* Retree.nodeChangedListeners: node -> Seq(listener)
    treeChangedListeners,  \* Retree.treeChangedListeners
    nodeRemovedListeners,  \* Retree.nodeRemovedListeners
    nodeChangeListener,    \* Retree.nodeChangeListener # null (emitter is wired)
    reactiveDependencies,  \* reactiveDependenciesMap: derived node -> its record
    reactiveDependents,    \* reactiveDependentMap: node -> Seq(dependent)
    subscribed,            \* listener id -> what was given to Retree.on, and
                           \* how often the unsubscribe it returned was called
    skipEmit, skipReproxy, runningTransaction,   \* Transactions flags
    pendingTransactions,   \* Transactions.pendingTransactions, in Map order
    block,                 \* the runSilent / runTransaction calls on the stack
    returned,              \* the outermost runSilent / runTransaction has returned
    nops,                  \* writes and deletes so far
    calls,                 \* listener invocations made by the last step
    last,                  \* the last operation and what it observed
    minted,                \* nodes that got a new snapshot in the last step
    relinked,              \* nodes whose parent link changed in the last step
    txBodyCalls,           \* invocations made while the transaction body ran
    txMut,                 \* txMut[n]: mutations of n in the transaction body
    blkSnap,               \* reproxy when the outermost runSilent began
    blkMut,                \* nodes mutated in the body of the outermost runSilent
    txDetached,            \* [n, k, c]: the transaction body took c out of n.k
    scope                  \* what the program under study does, fixed at the start

vars == <<wrapped, raw, children, parentLink, reproxy, snapOk, offBase, built,
          notified,
          nodeChangedListeners, treeChangedListeners, nodeRemovedListeners,
          nodeChangeListener, reactiveDependencies, reactiveDependents,
          subscribed, skipEmit, skipReproxy,
          runningTransaction, pendingTransactions, block, returned, nops, calls,
          last,
          minted, relinked, txBodyCalls, txMut, blkSnap, blkMut, txDetached,
          scope>>

\* ------------------------------------------------------- topology registry
\* Retree.getParentInternal / Retree.parent: null when there is no parent
\* object or its proxyNode is null
GetParentInternal(pl, c) ==
    IF pl[c].obj /\ pl[c].proxyNode # 0 THEN pl[c].proxyNode ELSE 0

RECURSIVE AncestorsFrom(_, _, _)
AncestorsFrom(pl, c, fuel) ==
    LET p == GetParentInternal(pl, c)
    IN IF p = 0 \/ fuel = 0 THEN {}
       ELSE {p} \cup AncestorsFrom(pl, p, fuel - 1)
Ancestors(pl, c) == AncestorsFrom(pl, c, Cardinality(Nodes))

\* ------------------------------------------------------------------ reproxy
\* updateReproxyNode(node): a new Proxy on top of `node`.  onBase says whether
\* `node` is the base proxy; a reproxy built on a reproxy takes its handler,
\* which has no proxiedChildrenKey, so its string reads throw
\* a bug that hands out the reproxy already in reproxyMap
ReuseReproxyNode(st, n, onBase) ==
    [st EXCEPT !.reproxy[n] = IF @ = 0 THEN 1 ELSE @, !.snapOk[n] = onBase]
UpdateReproxyNode(st, n, onBase) ==
    [st EXCEPT !.reproxy[n] = @ + 1, !.snapOk[n] = onBase,
               !.offBase[n] = IF onBase THEN @ ELSE @ \cup {st.reproxy[n] + 1}]

\* getReproxyNode(node)
GetReproxyNode(st, n) == Snap(n, st.reproxy[n])

\* the get trap of the base proxy: a proxied child wins over the raw value
BaseGet(st, n, k) ==
    IF st.children[n][k] # 0 THEN Px(st.children[n][k]) ELSE JsVal(st.raw[n][k])

\* the get trap of the reproxy in reproxyMap
ReproxyGet(st, n, k) ==
    IF ~st.snapOk[n] THEN Err
    ELSE IF st.children[n][k] # 0
         THEN GetReproxyNode(st, st.children[n][k])
         ELSE JsVal(st.raw[n][k])

\* the get trap of the reproxy (n, ver), which may have been replaced in
\* reproxyMap since: the handler of the proxy it was built on is consulted
SnapGet(st, n, ver, k) ==
    IF ver \in st.offBase[n] THEN Err
    ELSE IF st.children[n][k] # 0
         THEN GetReproxyNode(st, st.children[n][k])
         ELSE JsVal(st.raw[n][k])

\* -------------------------------------------------------------- buildProxy
RECURSIVE BuildProxy(_, _, _, _)
RECURSIVE WrapEntries(_, _, _)
\* Object.entries(object).forEach: every object-valued entry is proxied and
\* recorded in the children map; the raw field itself is left as it was
WrapEntries(st, obj, i) ==
    IF i > Len(KeySeq) THEN st
    ELSE LET k == KeySeq[i]
             v == st.raw[obj][k]
         IN IF v.t = "raw"
            THEN WrapEntries([BuildProxy(st, v.v, obj, k)
                                 EXCEPT !.children[obj][k] = v.v], obj, i + 1)
            ELSE WrapEntries(st, obj, i + 1)

BuildProxy(st, obj, pn, pk) ==
    LET st0 == [st EXCEPT
                  !.wrapped = @ \cup {obj},
                  !.built[obj] = @ + 1,
                  !.children[obj] = [k \in Keys |-> 0],
                  !.parentLink[obj] =
                      IF pn = 0 THEN NullParent
                      ELSE [obj |-> TRUE, proxyNode |-> pn, propName |-> pk]]
    IN UpdateReproxyNode(WrapEntries(st0, obj, 1), obj, TRUE)


\* ------------------------------------------------------------ transactions
\* an ITransaction: three optional closures.  emitNodeChanged captures the
\* reproxy of the change, emitTreeChanged the confirmed callbacks and either
\* the parent's reproxy (cur = FALSE) or getReproxyNode at call time
NoNc == [set |-> FALSE, ver |-> 0]
NoTc == [set |-> FALSE, cbs |-> <<>>, cur |-> FALSE, ver |-> 0]
NoNr == [set |-> FALSE]
EmptyTxn == [nc |-> NoNc, tc |-> NoTc, nr |-> NoNr]
NcTxn(ver) == [EmptyTxn EXCEPT !.nc = [set |-> TRUE, ver |-> ver]]
TcTxn(cbs, cur, ver) ==
    [EmptyTxn EXCEPT !.tc = [set |-> TRUE, cbs |-> cbs, cur |-> cur, ver |-> ver]]
NrTxn == [EmptyTxn EXCEPT !.nr = [set |-> TRUE]]

PendingIndex(p, node) ==
    IF \E i \in 1..Len(p) : p[i].node = node
    THEN CHOOSE i \in 1..Len(p) : p[i].node = node
    ELSE 0

\* a bug that queues every emission instead of keeping one record per node
UpsertAlwaysAppend(p, node, up) == Append(p, [node |-> node, txn |-> up])

\* Transactions.upsertPendingTransaction: the merged record is computed and
\* dropped, the Map entry is set to upsertTransaction alone
UpsertPendingTransaction(p, node, up) ==
    LET i == PendingIndex(p, node)
    IN IF i = 0 THEN Append(p, [node |-> node, txn |-> up])
       ELSE [p EXCEPT ![i].txn = up]

\* ------------------------------------------------------------ notification
Call(lid, kind, node, ver) ==
    [lid |-> lid, kind |-> kind, node |-> node, ver |-> ver]

\* a callback is a listener id: l > 0 is the l-th callback given to Retree.on
\* by the program, -D is handleReactiveDependentNodeChanged as bound for the
\* dependency of the derived node D
Internal(D) == 0 - D
IsInternal(lid) == lid < 0
\* the program's callback throws when it is invoked
Throws(lid) == lid > 0 /\ subscribed[lid].throws
\* the callback calls the unsubscribe that a Retree.on of the program returned
Cancels(lid) ==
    /\ lid > 0
    /\ subscribed[lid].cancels # 0
    /\ subscribed[subscribed[lid].cancels].kind # "none"

\* relevantListenerMap for a listenerType
ListenersOf(st, kind) ==
    IF kind = "nodeChanged" THEN st.ncl
    ELSE IF kind = "treeChanged" THEN st.tcl ELSE st.nrl
WithListeners(st, kind, node, ls) ==
    IF kind = "nodeChanged" THEN [st EXCEPT !.ncl[node] = ls]
    ELSE IF kind = "treeChanged" THEN [st EXCEPT !.tcl[node] = ls]
    ELSE [st EXCEPT !.nrl[node] = ls]
NoListeners == [n \in Nodes |-> <<>>]

\* Retree.stopListening
StopListening(st) ==
    [st EXCEPT !.on = FALSE, !.ncl = NoListeners, !.tcl = NoListeners,
               !.nrl = NoListeners]

\* ----------------------------------------------------------- derived nodes
\* the dependencies getter of the program's ReactiveNode class:
\*   get dependencies() { return [this.dependency(this.a, [f(this.a)])] }
\* or, when the program declares no comparisons, [this.dependency(this.a)],
\* with f(X) = X?.b
Comparison(st, X) == IF X # 0 THEN BaseGet(st, X, "b") ELSE Undef
\* the length of the comparisons: a class may build the list conditionally,
\*   this.dependency(this.a, f(this.a) ? [f(this.a), g(this.a)] : [f(this.a)])
ComparisonsLength(st, X) ==
    IF ~scope.cmp THEN 0
    ELSE IF scope.vary /\ Truthy(Comparison(st, X)) THEN 2 ELSE 1
Dependencies(st, D) ==
    LET x == IF scope.shared # 0 THEN Px(scope.shared) ELSE BaseGet(st, D, "a")
        node == IF x.t = "px" THEN x.v ELSE 0
    IN [node |-> node, hasCmp |-> scope.cmp,
        cmp |-> IF scope.cmp THEN Comparison(st, node) ELSE Undef,
        len |-> ComparisonsLength(st, node)]

\* an absent entry of reactiveDependenciesMap
NoDeps == [set |-> FALSE, node |-> 0, hasCmp |-> FALSE, cmp |-> Undef, len |-> 0,
           unsub |-> FALSE]

IndexOf(ls, x) ==
    IF \E i \in 1..Len(ls) : ls[i] = x
    THEN CHOOSE i \in 1..Len(ls) : ls[i] = x /\ \A j \in 1..(i - 1) : ls[j] # x
    ELSE 0
RemoveAt(ls, i) == SubSeq(ls, 1, i - 1) \o SubSeq(ls, i + 1, Len(ls))

\* setReactiveDependents(unproxiedNode, dependent): the record of the same
\* derived node is replaced, else the new one is pushed
SetReactiveDependents(st, X, dep) ==
    LET ds == st.dependents[X]
    IN IF \E i \in 1..Len(ds) : ds[i].node = dep.node
       THEN [st EXCEPT !.dependents[X] =
                [i \in 1..Len(ds) |-> IF ds[i].node = dep.node THEN dep ELSE ds[i]]]
       ELSE [st EXCEPT !.dependents[X] = Append(ds, dep)]

\* deleteReactiveDependent(dependency node, derived node)
DeleteReactiveDependent(st, X, D) ==
    [st EXCEPT !.dependents[X] = SelectSeq(@, LAMBDA d : d.node # D)]

RECURSIVE UnsubscribeFn(_, _, _, _)
RECURSIVE StopReactiveNode(_, _)
RECURSIVE OnFn(_, _, _, _)
RECURSIVE HandleReactiveNode(_, _)
RECURSIVE NodeChangeListenerFn(_, _)

\* "_listeners.splice(findIndex, 1)": findIndex is -1 when the callback is not
\* in the list, and splice(-1, 1) removes the last element
Splice(ls, i) == IF i = 0 THEN SubSeq(ls, 1, Len(ls) - 1) ELSE RemoveAt(ls, i)

\* unsubscribe, first statement: the callback leaves the list of its node
RemoveListener(st, node, kind, lid) ==
    IF ListenersOf(st, kind)[node] = <<>> THEN st
    ELSE WithListeners(st, kind, node,
                       Splice(ListenersOf(st, kind)[node],
                              IndexOf(ListenersOf(st, kind)[node], lid)))

\* unsubscribe, second statement: a derived node without leaf and subtree
\* listeners stops listening to its dependencies
StopIfUnlistened(st, node, kind) ==
    IF /\ node \in scope.derived
       /\ ListenersOf(st, kind)[node] = <<>>
       /\ (IF kind = "nodeChanged" THEN st.tcl[node] ELSE st.ncl[node]) = <<>>
    THEN StopReactiveNode(st, node)
    ELSE st

\* unsubscribe, third statement
StopIfUnused(st) ==
    IF st.ncl = NoListeners /\ st.tcl = NoListeners /\ st.nrl = NoListeners
    THEN StopListening(st)
    ELSE st

\* the unsubscribe closure built by Retree.buildUnsubscribeCallback
UnsubscribeFn(st, node, kind, lid) ==
    StopIfUnused(StopIfUnlistened(RemoveListener(st, node, kind, lid), node, kind))

\* Retree.clearListeners(v), v being what the caller passes, up to the test of
\* shallow: getUnproxiedNode returns a value that is no custom proxy as it is,
\* and the error is thrown for a falsy value only
ClearNode(st, v) ==
    IF ~Truthy(v) THEN [st EXCEPT !.exc = TRUE]
    ELSE IF IsObject(v)
         THEN StopIfUnused([st EXCEPT !.ncl[v.v] = <<>>, !.tcl[v.v] = <<>>,
                                      !.nrl[v.v] = <<>>])
         ELSE StopIfUnused(st)

\* "Object.values(node).forEach((child) => this.clearListeners(child))": the
\* own properties are read through the proxy, and shallow defaults to true
RECURSIVE ClearChildren(_, _, _)
ClearChildren(st, n, i) ==
    IF st.exc \/ i > Len(KeySeq) THEN st
    ELSE IF st.raw[n][KeySeq[i]] = Abs THEN ClearChildren(st, n, i + 1)
    ELSE ClearChildren(ClearNode(st, BaseGet(st, n, KeySeq[i])), n, i + 1)

\* Retree.clearListeners(node, shallow) for the proxy of n
ClearListeners(st, n, shallow) ==
    IF shallow THEN ClearNode(st, Px(n))
    ELSE ClearChildren(ClearNode(st, Px(n)), n, 1)

\* "depPrevious?.unsubscribeListener?.()"
UnsubscribePrevious(st, D) ==
    IF st.deps[D].set /\ st.deps[D].unsub
    THEN UnsubscribeFn(st, st.deps[D].node, "nodeChanged", Internal(D))
    ELSE st

\* "if (prevDependentNode) deleteReactiveDependent(...)"
DeletePreviousDependent(st, D) ==
    IF st.deps[D].set /\ st.deps[D].node # 0
    THEN DeleteReactiveDependent(st, st.deps[D].node, D)
    ELSE st

\* deleteReactiveDependencies(unproxiedNode)
DeleteReactiveDependencies(st, D) == [st EXCEPT !.deps[D] = NoDeps]

\* Retree.stopReactiveNode
StopReactiveNode(st, D) ==
    DeleteReactiveDependencies(
        DeletePreviousDependent(UnsubscribePrevious(st, D), D), D)

\* Retree.on, up to the new entry of the listener list
AddListener(st, node, kind, lid) ==
    WithListeners([st EXCEPT !.on = TRUE], kind, node,
                  Append(ListenersOf(st, kind)[node], lid))

\* Retree.on, the rest
HandleIfReactive(st, node, kind) ==
    IF node \in scope.derived /\ kind \in {"nodeChanged", "treeChanged"}
    THEN HandleReactiveNode(st, node)
    ELSE st

\* Retree.on(node, listenerType, callback) up to the unsubscribe it returns
OnFn(st, node, kind, lid) ==
    HandleIfReactive(AddListener(st, node, kind, lid), node, kind)

\* handleReactiveNode: the dependency cur takes the place of the previous one
SubscribeCurrent(st, D, cur) ==
    IF cur.node # 0
    THEN OnFn(SetReactiveDependents(st, cur.node,
                  [node |-> D, hasCmp |-> cur.hasCmp, cmp |-> cur.cmp,
                   len |-> cur.len]),
              cur.node, "nodeChanged", Internal(D))
    ELSE DeletePreviousDependent(st, D)

\* setReactiveDependencies(unproxiedDependentNode, newActiveDependencies)
SetReactiveDependencies(st, D, cur) ==
    [st EXCEPT !.deps[D] =
        [set |-> TRUE, node |-> cur.node, hasCmp |-> cur.hasCmp,
         cmp |-> cur.cmp, len |-> cur.len, unsub |-> cur.node # 0]]

\* Retree.handleReactiveNode
HandleReactiveNode(st, D) ==
    SetReactiveDependencies(
        SubscribeCurrent(UnsubscribePrevious(st, D), D, Dependencies(st, D)),
        D, Dependencies(st, D))

\* a bug that notifies the derived node on every change of its dependency
AlwaysNotify(previous, latest) == TRUE
\* "shouldNotify": no comparisons, or one of them is not the recorded one
ShouldNotify(previous, latest) ==
    ~previous.hasCmp \/ latest.cmp # previous.cmp

\* "this.nodeChangeListener?.(dependentUnproxied, dependentBaseProxy, ...)"
CallNodeChangeListener(st, D) ==
    IF st.on THEN NodeChangeListenerFn(st, D) ELSE st

\* "Transactions.skipReproxy ? getReproxyNodeForUnproxiedNode(...)
\*                           : updateReproxyNode(dependentBaseProxy)"
ReproxyDependent(st, D) ==
    IF skipReproxy THEN st ELSE UpdateReproxyNode(st, D, TRUE)

\* "latestComparisons === undefined || !previousComparisons ||
\*  latestComparisons.length !== previousComparisons.length", which is
\* evaluated when the previous comparisons are defined
UnexpectedComparisons(previous, latest) ==
    previous.hasCmp /\ (~latest.hasCmp \/ latest.len # previous.len)

\* the body of the forEach of handleReactiveDependentNodeChanged
NotifyDependent(st, dependent) ==
    IF UnexpectedComparisons(dependent, Dependencies(st, dependent.node))
    THEN [st EXCEPT !.exc = TRUE]
    ELSE IF ShouldNotify(dependent, Dependencies(st, dependent.node))
    THEN CallNodeChangeListener(ReproxyDependent(st, dependent.node),
                                dependent.node)
    ELSE st

RECURSIVE NotifyDependents(_, _, _)
\* the forEach of Retree.handleReactiveDependentNodeChanged
NotifyDependents(st, ds, i) ==
    IF i > Len(ds) \/ st.exc THEN st
    ELSE NotifyDependents(NotifyDependent(st, ds[i]), ds, i + 1)

\* Retree.handleReactiveDependentNodeChanged(reproxy), reproxy being of X
HandleReactiveDependentNodeChanged(st, X) ==
    NotifyDependents(st, st.dependents[X], 1)

\* the set trap for a number, n[k] = nv, as it runs for a callback that the
\* flush of runTransaction invokes, runningTransaction being true still, in a
\* tree without subtree-changed listeners and derived nodes: the raw value is
\* stored, n gets a snapshot and emitNodeChangedListeners is upserted
SetNumberInFlush(st, n, k, nv) ==
    IF JsVal(st.raw[n][k]) = nv THEN st
    ELSE IF st.on
         THEN [UpdateReproxyNode([st EXCEPT !.raw[n][k] = nv], n, TRUE) EXCEPT
                  !.pend = UpsertPendingTransaction(
                               @, n, NcTxn(st.reproxy[n] + 1))]
    ELSE UpdateReproxyNode([st EXCEPT !.raw[n][k] = nv], n, TRUE)

\* what the callback does: the listener of a derived node notifies the
\* dependents, a callback of the program returns, throws, calls an
\* unsubscribe or, (node) => { node.b = 1 }, writes to its node
Callback(st, l, node) ==
    IF IsInternal(l) THEN HandleReactiveDependentNodeChanged(st, node)
    ELSE IF Throws(l) THEN [st EXCEPT !.exc = TRUE]
    ELSE IF Cancels(l)
         THEN UnsubscribeFn(st, subscribed[subscribed[l].cancels].node,
                            subscribed[subscribed[l].cancels].kind,
                            subscribed[l].cancels)
    ELSE IF scope.rewrite THEN SetNumberInFlush(st, node, "b", Prim(1))
    ELSE st

\* "callback(reproxyNode)"
Invoke(st, l, kind, node, ver) ==
    Callback([st EXCEPT !.calls = Append(@, Call(l, kind, node, ver))], l, node)

RECURSIVE InvokeFrom(_, _, _, _, _, _)
\* forEach over a copy of the listeners: a callback that throws ends it
InvokeFrom(st, lids, i, kind, node, ver) ==
    IF i > Len(lids) \/ st.exc THEN st
    ELSE InvokeFrom(Invoke(st, lids[i], kind, node, ver),
                    lids, i + 1, kind, node, ver)

RECURSIVE InvokeLiveFrom(_, _, _, _, _)
\* a forEach over the list in the map, which the callbacks change
InvokeLiveFrom(st, i, kind, node, ver) ==
    IF i > Len(ListenersOf(st, kind)[node]) \/ st.exc THEN st
    ELSE InvokeLiveFrom(Invoke(st, ListenersOf(st, kind)[node][i], kind, node, ver),
                        i + 1, kind, node, ver)

\* "[...listeners]": the list as it is when the notification starts
Copied(st, lids, kind, node) ==
    IF lids = <<>> THEN st
    ELSE [st EXCEPT !.notified =
              Append(@, [node |-> node, kind |-> kind, lids |-> lids])]

\* a bug that does not copy the list
InvokeLive(st, lids, kind, node, ver) ==
    InvokeLiveFrom(Copied(st, lids, kind, node), 1, kind, node, ver)
InvokeAll(st, lids, kind, node, ver) ==
    InvokeFrom(Copied(st, lids, kind, node), lids, 1, kind, node, ver)

\* emitNodeChangedListeners: the listeners are read when the closure runs
RunNc(st, node, c) ==
    InvokeAll(st, st.ncl[node], "nodeChanged", node, c.ver)
\* handleEmitTreeChanged / handlePNodeEmitTreeChanged
RunTc(st, node, c) ==
    InvokeAll(st, c.cbs, "treeChanged", node,
              IF c.cur THEN st.reproxy[node] ELSE c.ver)
\* emitNodeRemovedListeners
RunNr(st, node) ==
    InvokeAll(st, st.nrl[node], "nodeRemoved", node, 0)

\* "transaction.emitNodeChanged?.()" and the two statements after it
OptNc(st, node, t) == IF t.nc.set THEN RunNc(st, node, t.nc) ELSE st
OptTc(st, node, t) == IF t.tc.set /\ ~st.exc THEN RunTc(st, node, t.tc) ELSE st
OptNr(st, node, t) == IF t.nr.set /\ ~st.exc THEN RunNr(st, node) ELSE st

RunTxn(st, node, t) == OptNr(OptTc(OptNc(st, node, t), node, t), node, t)

\* "if (Transactions.runningTransaction) upsert ... else emit immediately"
EmitOrDefer(st, node, t) ==
    IF runningTransaction
    THEN [st EXCEPT !.pend = UpsertPendingTransaction(@, node, t)]
    ELSE RunTxn(st, node, t)

\* a bug that forgets the test in _nodeChangeListener
NeverSkipEmitNodeChanged == FALSE
\* the three places that test Transactions.skipEmit
SkipEmitNodeChanged == skipEmit
SkipEmitTreeChanged == skipEmit
SkipEmitNodeRemoved == skipEmit

\* a bug that never finds a treeChanged listener
NoConfirmedCallbacks(st, node) == <<>>
\* treeChangedListeners.get(node), copied into confirmedCallbacks
ConfirmedCallbacks(st, node) == st.tcl[node]

\* a bug that reproxies every checked parent up to the root
NeverTopListened(pNode, top) == FALSE
\* "if (pNode === topProxyNodeListenedTo) return"
IsTopListened(pNode, top) == pNode = top

EmptyConfirmed == [n \in Nodes |-> <<>>]

\* handlePNodeEmitTreeChanged, emitted or deferred
EmitParentTreeChanged(st, pNode, confirmed) ==
    IF ~SkipEmitTreeChanged
    THEN EmitOrDefer(st, pNode, TcTxn(confirmed[pNode], FALSE, st.reproxy[pNode]))
    ELSE st

RECURSIVE ReproxyParents(_, _, _, _, _)
\* the end of one round of the loop over checkedParentProxyNodes
NextParent(st, checked, i, top, confirmed) ==
    IF st.exc \/ IsTopListened(checked[i], top) THEN st
    ELSE ReproxyParents(st, checked, i + 1, top, confirmed)

\* the loop over checkedParentProxyNodes
ReproxyParents(st, checked, i, top, confirmed) ==
    IF i > Len(checked) THEN st
    ELSE NextParent(
             EmitParentTreeChanged(UpdateReproxyNode(st, checked[i], TRUE),
                                   checked[i], confirmed),
             checked, i, top, confirmed)

\* handleEmitTreeChanged, emitted or deferred
EmitChangedTreeChanged(st, changed, confirmed) ==
    IF ~SkipEmitTreeChanged
    THEN EmitOrDefer(st, changed, TcTxn(confirmed[changed], TRUE, 0))
    ELSE st

\* "if (topProxyNodeListenedTo === proxyNodeThatChanged) return", else the loop
ParentsUnlessTop(st, changed, top, confirmed, checked) ==
    IF st.exc \/ top = changed THEN st
    ELSE ReproxyParents(st, checked, 1, top, confirmed)

RECURSIVE HandleNotifyTreeChanged(_, _, _, _, _, _)
\* Retree.handleNotifyTreeChanged(node, proxyNode, proxyNodeThatChanged, ...)
HandleNotifyTreeChanged(st, node, changed, top, confirmed, checked) ==
    LET cbs == ConfirmedCallbacks(st, node)
        confirmed2 == IF Len(cbs) > 0 THEN [confirmed EXCEPT ![node] = cbs]
                      ELSE confirmed
        top2 == IF Len(cbs) > 0 THEN node ELSE top
        parent == GetParentInternal(st.parentLink, node)
    IN IF parent = 0
       THEN IF \A m \in Nodes : confirmed2[m] = <<>> THEN st
            ELSE ParentsUnlessTop(
                     EmitChangedTreeChanged(st, changed, confirmed2),
                     changed, top2, confirmed2, checked)
       ELSE HandleNotifyTreeChanged(st, parent, changed, top2, confirmed2,
                                    Append(checked, parent))

\* "if (proxyNode instanceof ReactiveNode) this.handleReactiveNode(...)"
HandleIfReactiveNode(st, node) ==
    IF node \in scope.derived THEN HandleReactiveNode(st, node) ELSE st

\* emitNodeChangedListeners, emitted or deferred
EmitLeafChanged(st, node) ==
    IF ~SkipEmitNodeChanged
    THEN EmitOrDefer(st, node, NcTxn(st.reproxy[node]))
    ELSE st

\* "this.handleNotifyTreeChanged(unproxiedNode, proxyNode, proxyNode)"
NotifyTree(st, node) ==
    IF st.exc THEN st
    ELSE HandleNotifyTreeChanged(st, node, node, 0, EmptyConfirmed, <<>>)

\* a bug that walks up the tree before the listeners of the node are invoked
TreeBeforeLeaf(st, node) ==
    EmitLeafChanged(NotifyTree(HandleIfReactiveNode(st, node), node), node)
\* _nodeChangeListener(unproxiedNode, proxyNode, reproxyNode)
NodeChangeListenerFn(st, node) ==
    NotifyTree(EmitLeafChanged(HandleIfReactiveNode(st, node), node), node)

\* _nodeRemovedListener(node): node is the first argument of the emit, the
\* raw node whose property was replaced or deleted
NodeRemovedListenerFn(st, node) ==
    IF SkipEmitNodeRemoved THEN st ELSE EmitOrDefer(st, node, NrTxn)

\* emitter.emit(...): reaches Retree only between startListening and
\* stopListening
EmitNodeChanged(st, node) ==
    IF st.on THEN NodeChangeListenerFn(st, node) ELSE st
EmitNodeRemoved(st, node) ==
    IF st.on THEN NodeRemovedListenerFn(st, node) ELSE st


\* ------------------------------------------------------------- proxy traps
\* "const hasChanged = prev !== newValue"
HasChanged(prev, newValue) == prev # newValue

\* a bug that unlinks the child whatever field its parent link names
UnlinkWhateverField(st, rd, k) ==
    IF IsObject(rd)
    THEN IF ~st.parentLink[rd.v].obj
         THEN [st |-> st, removed |-> Undef]
         ELSE [st |-> [st EXCEPT !.parentLink[rd.v] =
                          [obj |-> TRUE, proxyNode |-> 0, propName |-> "null"]],
               removed |-> rd]
    ELSE [st |-> st, removed |-> rd]
\* handleNodeRemoved(node, prop), rd being what node[prop] returned
HandleNodeRemoved(st, rd, k) ==
    IF IsObject(rd)
    THEN LET oldParent == st.parentLink[rd.v]
         IN IF ~oldParent.obj \/ oldParent.propName # k
            THEN [st |-> st, removed |-> Undef]
            ELSE [st |-> [st EXCEPT !.parentLink[rd.v] =
                             [obj |-> TRUE, proxyNode |-> 0, propName |-> "null"]],
                  removed |-> rd]
    ELSE [st |-> st, removed |-> rd]

\* reparentProxy throws when the node has another non-null parent
ReparentThrows(st, c, n) ==
    /\ st.parentLink[c].obj
    /\ st.parentLink[c].proxyNode # 0
    /\ st.parentLink[c].proxyNode # n

\* reparentProxy(proxy, newParent): a null parent (a root) is left null
ReparentProxy(st, c, n, k) ==
    IF st.parentLink[c].obj
    THEN [st EXCEPT !.parentLink[c] =
             [obj |-> TRUE, proxyNode |-> n, propName |-> k]]
    ELSE st

\* a bug that reproxies inside runSilent(fn, true)
NeverSkipReproxy == FALSE
\* "if (!Transactions.skipReproxy)"
SkipReproxy == skipReproxy

\* "if (nodeRemoved && !Transactions.skipEmit) emitter.emit("nodeRemoved", ...)"
EmitRemoved(st, n, removed) ==
    IF Truthy(removed) /\ ~skipEmit /\ ~st.exc
    THEN EmitNodeRemoved(st, n)
    ELSE st

\* what both traps do once the raw value is stored
ReproxyAndEmit(st, n, onBase, removed) ==
    IF SkipReproxy THEN st
    ELSE EmitRemoved(EmitNodeChanged(UpdateReproxyNode(st, n, onBase), n),
                     n, removed)

\* the set trap of the base proxy, n[k] = nv; null is no custom proxy, so it
\* is given to buildProxy, whose new Proxy(null, ...) throws a TypeError
SetTrap(st, n, k, nv) ==
    LET prev == JsVal(st.raw[n][k])
    IN IF ~HasChanged(prev, nv)
       THEN [st |-> st, threw |-> FALSE, changed |-> FALSE]
       ELSE LET hr == IF nv.t \in {"undef", "null"} \/ IsObject(nv)
                      THEN HandleNodeRemoved(st, BaseGet(st, n, k), k)
                      ELSE [st |-> st, removed |-> Undef]
            IN IF nv.t = "null" \/ (nv.t = "px" /\ ReparentThrows(hr.st, nv.v, n))
               THEN [st |-> hr.st, threw |-> TRUE, changed |-> FALSE]
               ELSE LET s2 == IF nv.t = "px"
                              THEN ReparentProxy(hr.st, nv.v, n, k)
                              ELSE IF nv.t = "raw"
                                   THEN BuildProxy(hr.st, nv.v, n, k)
                                   ELSE hr.st
                        s3 == [s2 EXCEPT
                                 !.raw[n][k] = IF IsObject(nv) THEN Px(nv.v) ELSE nv,
                                 !.children[n][k] = IF IsObject(nv) THEN nv.v ELSE @]
                    IN [st |-> ReproxyAndEmit(s3, n, TRUE, hr.removed),
                        threw |-> FALSE, changed |-> TRUE]

\* the deleteProperty trap: baseProxy is the current reproxy of n, so the
\* child is read through it and the new reproxy is built on it
DeleteTrap(st, n, k) ==
    LET rd == ReproxyGet(st, n, k)
    IN IF rd.t = "err"
       THEN [st |-> st, threw |-> TRUE, changed |-> FALSE]
       ELSE LET hr == HandleNodeRemoved(st, rd, k)
                s1 == [hr.st EXCEPT !.raw[n][k] = Abs]
            IN [st |-> ReproxyAndEmit(s1, n, FALSE, hr.removed),
                threw |-> FALSE, changed |-> TRUE]

\* [[Target]] of snapshot ver of n: the proxy (0) or the snapshot that was in
\* reproxyMap when updateReproxyNode built it
TargetOf(st, n, ver) == IF ver \in st.offBase[n] THEN ver - 1 ELSE 0

\* getBaseProxy(receiver) for snapshot ver of n: the node whose proxy ends the
\* [[Target]] chain
RECURSIVE GetBaseProxy(_, _, _)
GetBaseProxy(st, n, ver) ==
    IF ver = 0 THEN n ELSE GetBaseProxy(st, n, TargetOf(st, n, ver))

\* a set trap that stores into the raw node without reaching the proxy
SnapSetRaw(st, n, ver, k, nv) ==
    [st |-> [st EXCEPT !.raw[n][k] = nv], threw |-> FALSE,
     changed |-> HasChanged(JsVal(st.raw[n][k]), nv)]
\* the set trap of snapshot ver of n: Reflect.set on its target, up to the
\* set trap of the proxy, which takes baseProxy from the receiver
SnapSetTrap(st, n, ver, k, nv) == SetTrap(st, GetBaseProxy(st, n, ver), k, nv)

\* a snapshot has no deleteProperty trap: the delete reaches the trap of the
\* proxy at the end of the [[Target]] chain
SnapDeleteTrap(st, n, ver, k) == DeleteTrap(st, GetBaseProxy(st, n, ver), k)

\* Transactions.runPendingTransactions: forEach in Map order, then clear
RECURSIVE RunPendingTransactions(_, _)
RunPendingTransactions(st, i) ==
    IF st.exc THEN st
    ELSE IF i > Len(st.pend) THEN [st EXCEPT !.pend = <<>>]
    ELSE RunPendingTransactions(
             RunTxn(st, st.pend[i].node, st.pend[i].txn), i + 1)

\* -------------------------------------------------------------- the state
StOf == [wrapped |-> wrapped, raw |-> raw, children |-> children,
         parentLink |-> parentLink, reproxy |-> reproxy, snapOk |-> snapOk,
         offBase |-> offBase, built |-> built,
         pend |-> pendingTransactions, calls |-> <<>>, notified |-> <<>>,
         ncl |-> nodeChangedListeners, tcl |-> treeChangedListeners,
         nrl |-> nodeRemovedListeners, on |-> nodeChangeListener,
         deps |-> reactiveDependencies, dependents |-> reactiveDependents,
         exc |-> FALSE]

\* st becomes the state of the engine
Engine(st) ==
    /\ wrapped' = st.wrapped
    /\ raw' = st.raw
    /\ children' = st.children
    /\ parentLink' = st.parentLink
    /\ reproxy' = st.reproxy
    /\ snapOk' = st.snapOk
    /\ offBase' = st.offBase
    /\ built' = st.built
    /\ pendingTransactions' = st.pend
    /\ calls' = st.calls
    /\ notified' = st.notified
    /\ nodeChangedListeners' = st.ncl
    /\ treeChangedListeners' = st.tcl
    /\ nodeRemovedListeners' = st.nrl
    /\ nodeChangeListener' = st.on
    /\ reactiveDependencies' = st.deps
    /\ reactiveDependents' = st.dependents

NoSub == [node |-> 0, kind |-> "none", throws |-> FALSE, offs |-> 0,
          cancels |-> 0]
ZeroSnap == [n \in Nodes |-> 0]
NoLast == [op |-> "init", n |-> 0, k |-> "null", nv |-> Undef, rd |-> Undef,
           prev |-> Undef, kept |-> TRUE, pp |-> 0,
           exc |-> FALSE, lid |-> 0, same |-> TRUE, via |-> 0, cur |-> 0,
           shallow |-> TRUE,
           deps |-> [n \in Nodes |-> NoDeps],
           changed |-> FALSE, threw |-> FALSE, deferred |-> FALSE,
           se |-> FALSE, sr |-> FALSE, rt |-> FALSE]

InitSt ==
    BuildProxy([wrapped |-> {},
                raw |-> [n \in Nodes |->
                            IF n <= NumInit THEN InitRaw[n] ELSE FreshRaw],
                children |-> [n \in Nodes |-> [k \in Keys |-> 0]],
                parentLink |-> [n \in Nodes |-> NullParent],
                reproxy |-> ZeroSnap,
                snapOk |-> [n \in Nodes |-> TRUE],
                offBase |-> [n \in Nodes |-> {}],
                built |-> [n \in Nodes |-> 0],
                pend |-> <<>>, calls |-> <<>>, notified |-> <<>>,
                ncl |-> NoListeners, tcl |-> NoListeners, nrl |-> NoListeners,
                on |-> FALSE, deps |-> [n \in Nodes |-> NoDeps],
                dependents |-> [n \in Nodes |-> <<>>], exc |-> FALSE],
               1, 0, "null")

\* a program of at most `ops` writes and deletes and `subs` calls of Retree.on.
\* derived: the nodes that are instances of the program's ReactiveNode class;
\* cmp: its dependencies declare comparisons; offs: the calls of one
\* unsubscribe function; faulty: callbacks may throw; throws: the function
\* given to runSilent / runTransaction may throw
Program(ops, subs) ==
    [ops |-> ops, subs |-> subs, derived |-> {}, cmp |-> FALSE, offs |-> 0,
     faulty |-> FALSE, throws |-> FALSE, nulls |-> FALSE, rewrap |-> FALSE,
     vary |-> FALSE, cancel |-> FALSE, shared |-> 0, rewrite |-> FALSE]

\* Retree.use(root) on the initial objects; nothing subscribed yet
Started(program) ==
    /\ scope = program
    /\ wrapped = InitSt.wrapped
    /\ raw = InitSt.raw
    /\ children = InitSt.children
    /\ parentLink = InitSt.parentLink
    /\ reproxy = InitSt.reproxy
    /\ snapOk = InitSt.snapOk
    /\ offBase = InitSt.offBase
    /\ built = InitSt.built
    /\ nodeChangedListeners = InitSt.ncl
    /\ treeChangedListeners = InitSt.tcl
    /\ nodeRemovedListeners = InitSt.nrl
    /\ nodeChangeListener = InitSt.on
    /\ reactiveDependencies = InitSt.deps
    /\ reactiveDependents = InitSt.dependents
    /\ subscribed = [l \in 1..scope.subs |-> NoSub]
    /\ skipEmit = FALSE
    /\ skipReproxy = FALSE
    /\ runningTransaction = FALSE
    /\ pendingTransactions = <<>>
    /\ block = <<>>
    /\ returned = FALSE
    /\ nops = 0
    /\ calls = <<>>
    /\ notified = <<>>
    /\ last = NoLast
    /\ minted = {}
    /\ relinked = {}
    /\ txBodyCalls = <<>>
    /\ txMut = ZeroSnap
    /\ blkSnap = ZeroSnap
    /\ blkMut = {}
    /\ txDetached = {}

Init == Started(Program(MaxOps, MaxListeners))

\* the calls of runSilent / runTransaction whose function is running
SilentDepth == Cardinality({i \in 1..Len(block) : block[i].kind = "silent"})
TxnDepth == Cardinality({i \in 1..Len(block) : block[i].kind = "txn"})
InSilent == SilentDepth > 0
InTxn == TxnDepth > 0

\* the bookkeeping every mutation shares: commit st and record what happened
\* r is the outcome of the operation, made through snapshot ver of n or,
\* when ver = 0, through the proxy; w is its outcome through the proxy
CommitVia(r, op, n, k, nv, rd, ver, w) ==
    /\ Engine(r.st)
    /\ nops' = nops + 1
    /\ last' = [op |-> op, n |-> n, k |-> k, nv |-> nv, rd |-> rd,
                exc |-> r.st.exc, lid |-> 0, same |-> (r = w), via |-> ver,
                cur |-> IF ver = 0 THEN 0 ELSE reproxy[n], shallow |-> TRUE,
                deps |-> reactiveDependencies,
                prev |-> raw[n][k],
                kept |-> r.st.raw = raw /\ r.st.children = children,
                pp |-> IF nv.t = "px" THEN GetParentInternal(parentLink, nv.v)
                       ELSE 0,
                changed |-> r.changed, threw |-> r.threw,
                deferred |-> r.st.pend # pendingTransactions,
                se |-> skipEmit, sr |-> skipReproxy, rt |-> runningTransaction]
    /\ minted' = {m \in Nodes : r.st.reproxy[m] # reproxy[m]}
    /\ relinked' = {m \in Nodes : r.st.parentLink[m] # parentLink[m]}
    /\ txBodyCalls' = IF InTxn THEN txBodyCalls \o r.st.calls ELSE <<>>
    /\ txMut' = IF InTxn
                THEN IF r.changed /\ ~InSilent /\ txMut[n] < scope.ops
                     THEN [txMut EXCEPT ![n] = @ + 1] ELSE txMut
                ELSE ZeroSnap
    /\ blkSnap' = IF InSilent THEN blkSnap ELSE ZeroSnap
    /\ blkMut' = IF InSilent
                 THEN IF r.changed /\ SilentDepth = 1
                      THEN blkMut \cup {n} ELSE blkMut
                 ELSE {}
    /\ txDetached' =
         IF InTxn
         THEN IF /\ r.changed /\ IsObject(raw[n][k])
                 /\ r.st.raw[n][k] \notin {Raw(raw[n][k].v), Px(raw[n][k].v)}
              THEN txDetached \cup {[n |-> n, k |-> k, c |-> raw[n][k].v]}
              ELSE txDetached
         ELSE {}
    /\ UNCHANGED <<subscribed, skipEmit, skipReproxy, runningTransaction,
                   block, returned, scope>>

Commit(r, op, n, k, nv, rd) == CommitVia(r, op, n, k, nv, rd, 0, r)

\* the values a program writes: undefined, a number (the initial fields hold
\* both 0 and 1, so writing 1 is a change for some and none for others), a raw
\* object that is in no tree yet, or the proxy of a node that is not n or above
\* n; null, or a raw object that is in a tree, for the programs that write them
NextFresh == IF Nodes \ wrapped = {} THEN {}
             ELSE {CHOOSE f \in Nodes \ wrapped : \A g \in Nodes \ wrapped : f <= g}
WriteVals(n) ==
    {Undef, Prim(1)}
      \cup (IF scope.nulls THEN {Null} ELSE {})
      \cup (IF scope.rewrap
            THEN {Raw(c) : c \in wrapped \ ({n} \cup Ancestors(parentLink, n))}
            ELSE {})
      \cup {Raw(f) : f \in NextFresh}
      \cup {Px(c) : c \in wrapped \ ({n} \cup Ancestors(parentLink, n))}

\* the behaviours explored: the listeners are subscribed first, then the
\* program mutates either outside any call, or inside one outermost
\* runSilent / runTransaction whose return ends the behaviour
MaySubscribe == block = <<>> /\ nops = 0 /\ ~returned
MayMutate == nops < scope.ops /\ ~returned
MayBeginOutermost == block = <<>> /\ nops = 0 /\ ~returned
\* the last mutation of a runTransaction function may be wrapped in runSilent
MayBeginInTxn == InTxn /\ ~InSilent /\ nops = scope.ops - 1

\* n[k] = nv
Write(n, k, nv) ==
    /\ MayMutate
    /\ n \in wrapped
    /\ nv \in WriteVals(n)
    /\ Commit(SetTrap(StOf, n, k, nv), "write", n, k, nv, BaseGet(StOf, n, k))

\* delete n[k]
Delete(n, k) ==
    /\ MayMutate
    /\ n \in wrapped
    /\ Commit(DeleteTrap(StOf, n, k), "delete", n, k, Abs, BaseGet(StOf, n, k))

\* s[k] = nv, s being snapshot ver of n, the current one or an earlier one
WriteVia(n, ver, k, nv) ==
    /\ MayMutate
    /\ n \in wrapped
    /\ ver \in 1..reproxy[n]
    /\ nv \in WriteVals(n)
    /\ CommitVia(SnapSetTrap(StOf, n, ver, k, nv), "write", n, k, nv,
                 BaseGet(StOf, n, k), ver, SetTrap(StOf, n, k, nv))

\* delete s[k], s being snapshot ver of n
DeleteVia(n, ver, k) ==
    /\ MayMutate
    /\ n \in wrapped
    /\ ver \in 1..reproxy[n]
    /\ CommitVia(SnapDeleteTrap(StOf, n, ver, k), "delete", n, k, Abs,
                 BaseGet(StOf, n, k), ver, DeleteTrap(StOf, n, k))

\* --------------------------------------------------------------- listeners
Kinds == {"nodeChanged", "treeChanged", "nodeRemoved"}

NextLid == IF \E l \in DOMAIN subscribed : subscribed[l] = NoSub
           THEN {CHOOSE l \in DOMAIN subscribed :
                    /\ subscribed[l] = NoSub
                    /\ \A m \in DOMAIN subscribed : subscribed[m] = NoSub => l <= m}
           ELSE {}

\* what a step that is not a write or a delete records
Noted(op, n) ==
    /\ last' = [NoLast EXCEPT !.op = op, !.n = n, !.se = skipEmit,
                              !.sr = skipReproxy, !.rt = runningTransaction]
    /\ minted' = {}
    /\ relinked' = {}

\* steps that are not a write or a delete leave the tree and its history
Quiet(op, n) ==
    /\ Noted(op, n)
    /\ calls' = <<>>
    /\ notified' = <<>>
    /\ UNCHANGED <<wrapped, raw, children, parentLink, reproxy, snapOk, offBase,
                   built, nops>>

\* unsubscribe = Retree.on(node, listenerType, callback), the callback being
\* a function of the program that is given to no other call
\* the callback throws, calls the unsubscribe of the m-th Retree.on (m # 0), or
\* just returns
Listen(n, kind, throws, m) ==
    /\ MaySubscribe
    /\ n \in wrapped
    /\ \E l \in NextLid :
         /\ subscribed' = [subscribed EXCEPT ![l] =
                [node |-> n, kind |-> kind, throws |-> throws, offs |-> 0,
                 cancels |-> m]]
         /\ Engine(OnFn(StOf, n, kind, l))
    /\ Noted("on", n)
    /\ txBodyCalls' = <<>> /\ txMut' = ZeroSnap
    /\ blkSnap' = ZeroSnap /\ blkMut' = {}
    /\ txDetached' = {}
    /\ UNCHANGED <<nops, skipEmit, skipReproxy, runningTransaction, block,
                   returned, scope>>

On(n, kind, throws) == Listen(n, kind, throws, 0)

\* the callback returns normally
Subscribe(n, kind) == On(n, kind, FALSE)
\* the callback calls unsubscribe of the m-th Retree.on, itself included
SubscribeCanceller(n, kind, m) ==
    scope.cancel /\ m \in DOMAIN subscribed /\ Listen(n, kind, FALSE, m)
\* the callback throws
SubscribeFaulty(n, kind) == scope.faulty /\ On(n, kind, TRUE)

\* unsubscribe(), for the unsubscribe that the l-th Retree.on returned
Unsubscribe(l) ==
    /\ block = <<>> /\ ~returned
    /\ subscribed[l] # NoSub
    /\ subscribed[l].offs < scope.offs
    /\ subscribed' = [subscribed EXCEPT ![l].offs = @ + 1]
    /\ LET st == UnsubscribeFn(StOf, subscribed[l].node, subscribed[l].kind, l)
       IN /\ Engine(st)
          /\ last' = [NoLast EXCEPT !.op = "off", !.n = subscribed[l].node,
                                    !.lid = l,
                                    !.same = /\ st.ncl = nodeChangedListeners
                                             /\ st.tcl = treeChangedListeners
                                             /\ st.nrl = nodeRemovedListeners]
    /\ minted' = {}
    /\ relinked' = {}
    /\ txBodyCalls' = <<>> /\ txMut' = ZeroSnap
    /\ blkSnap' = ZeroSnap /\ blkMut' = {}
    /\ txDetached' = {}
    /\ UNCHANGED <<nops, skipEmit, skipReproxy, runningTransaction, block,
                   returned, scope>>

\* the listener registry is what it was
SameRegistry(st) ==
    /\ st.ncl = nodeChangedListeners
    /\ st.tcl = treeChangedListeners
    /\ st.nrl = nodeRemovedListeners

\* a call of Retree.on or Retree.clearListeners that leaves engine state st
Called(op, n, st, shallow) ==
    /\ block = <<>> /\ ~returned
    /\ nops < scope.ops
    /\ nops' = nops + 1
    /\ Engine(st)
    /\ last' = [NoLast EXCEPT !.op = op, !.n = n, !.exc = st.exc,
                              !.same = SameRegistry(st), !.shallow = shallow]
    /\ minted' = {}
    /\ relinked' = {}
    /\ txBodyCalls' = <<>> /\ txMut' = ZeroSnap
    /\ blkSnap' = ZeroSnap /\ blkMut' = {}
    /\ txDetached' = {}
    /\ UNCHANGED <<skipEmit, skipReproxy, runningTransaction, block,
                   returned, scope>>

\* Retree.clearListeners(n, shallow), n being a wrapper
UnsubscribeAll(n, shallow) ==
    /\ n \in wrapped
    /\ Called("clear", n, ClearListeners(StOf, n, shallow), shallow)
    /\ UNCHANGED subscribed

\* Retree.clearListeners(o), o being an object that was never given to the tree
UnsubscribeAllUnwrapped(o) ==
    /\ o \in Nodes \ wrapped
    /\ Called("clear", o, ClearNode(StOf, Raw(o)), TRUE)
    /\ UNCHANGED subscribed

\* Retree.on(o, listenerType, callback), o being an object that was never
\* given to the tree
SubscribeUnwrapped(o, kind) ==
    /\ o \in Nodes \ wrapped
    /\ \E l \in NextLid :
         /\ subscribed' = [subscribed EXCEPT ![l] =
                [node |-> o, kind |-> kind, throws |-> FALSE, offs |-> 0,
                 cancels |-> 0]]
         /\ Called("on", o, OnFn(StOf, o, kind, l), TRUE)

\* ------------------------------------------------- runSilent, runTransaction
\* Retree.runSilent(fn, sr) up to the call of fn
BeginSilent(sr) ==
    /\ ~returned
    /\ skipEmit' = TRUE
    /\ skipReproxy' = sr
    /\ block' = Append(block, [kind |-> "silent", sr |-> sr])
    /\ blkSnap' = IF InSilent THEN blkSnap ELSE reproxy
    /\ blkMut' = IF InSilent THEN blkMut ELSE {}
    /\ Quiet("beginSilent", 0)
    /\ txBodyCalls' = IF InTxn THEN txBodyCalls ELSE <<>>
    /\ txMut' = IF InTxn THEN txMut ELSE ZeroSnap
    /\ txDetached' = IF InTxn THEN txDetached ELSE {}
    /\ UNCHANGED <<nodeChangedListeners, treeChangedListeners,
                   nodeRemovedListeners, nodeChangeListener,
                   reactiveDependencies, reactiveDependents, subscribed,
                   runningTransaction, pendingTransactions, returned, scope>>

\* Retree.runSilent after fn returned: both flags are set to false
EndSilent ==
    /\ block # <<>>
    /\ block[Len(block)].kind = "silent"
    /\ skipEmit' = FALSE
    /\ skipReproxy' = FALSE
    /\ block' = SubSeq(block, 1, Len(block) - 1)
    /\ returned' = (Len(block) = 1)
    /\ calls' = <<>>
    /\ notified' = <<>>
    /\ last' = [NoLast EXCEPT !.op = "endSilent", !.se = skipEmit,
                              !.sr = block[Len(block)].sr,
                              !.rt = runningTransaction]
    /\ minted' = {}
    /\ relinked' = {}
    /\ UNCHANGED <<blkSnap, blkMut, txBodyCalls, txMut, txDetached, scope>>
    /\ UNCHANGED <<wrapped, raw, children, parentLink, reproxy, snapOk, offBase,
                   built, nops,
                   nodeChangedListeners, treeChangedListeners,
                   nodeRemovedListeners, nodeChangeListener,
                   reactiveDependencies, reactiveDependents, subscribed,
                   runningTransaction, pendingTransactions>>

\* Retree.runTransaction(fn) up to the call of fn
BeginTransaction ==
    /\ ~returned
    /\ runningTransaction' = TRUE
    /\ block' = Append(block, [kind |-> "txn", sr |-> FALSE])
    /\ Quiet("beginTxn", 0)
    /\ txBodyCalls' = IF InTxn THEN txBodyCalls ELSE <<>>
    /\ txMut' = IF InTxn THEN txMut ELSE ZeroSnap
    /\ blkSnap' = IF InSilent THEN blkSnap ELSE ZeroSnap
    /\ blkMut' = IF InSilent THEN blkMut ELSE {}
    /\ txDetached' = IF InTxn THEN txDetached ELSE {}
    /\ UNCHANGED <<nodeChangedListeners, treeChangedListeners,
                   nodeRemovedListeners, nodeChangeListener,
                   reactiveDependencies, reactiveDependents, subscribed,
                   skipEmit, skipReproxy, pendingTransactions, returned, scope>>

\* Retree.runTransaction after fn returned: flush, then clear the flag.  The
\* flush of a nested call happens inside the function of the outer call
EndTransaction ==
    /\ block # <<>>
    /\ block[Len(block)].kind = "txn"
    /\ LET st == RunPendingTransactions(StOf, 1)
       IN /\ Engine(st)
          /\ txBodyCalls' = IF TxnDepth > 1 THEN txBodyCalls \o st.calls
                            ELSE txBodyCalls
          \* a callback that throws leaves runPendingTransactions and
          \* runTransaction before the flag is cleared
          /\ runningTransaction' = st.exc
          /\ last' = [NoLast EXCEPT !.op = "endTxn", !.se = skipEmit,
                                    !.sr = skipReproxy,
                                    !.rt = runningTransaction,
                                    !.exc = st.exc]
          /\ minted' = {m \in Nodes : st.reproxy[m] # reproxy[m]}
          /\ relinked' = {m \in Nodes : st.parentLink[m] # parentLink[m]}
    /\ block' = SubSeq(block, 1, Len(block) - 1)
    /\ returned' = (Len(block) = 1)
    /\ UNCHANGED <<txMut, blkSnap, blkMut, txDetached, scope>>
    /\ UNCHANGED <<nops, subscribed, skipEmit, skipReproxy>>

\* the function given to runSilent / runTransaction throws: neither call
\* catches, so the rest of the call is not executed
Throw ==
    /\ scope.throws
    /\ block # <<>>
    /\ block' = SubSeq(block, 1, Len(block) - 1)
    /\ Quiet("throw", 0)
    /\ UNCHANGED <<txBodyCalls, txMut, blkSnap, blkMut, txDetached, scope>>
    /\ UNCHANGED <<nodeChangedListeners, treeChangedListeners,
                   nodeRemovedListeners, nodeChangeListener,
                   reactiveDependencies, reactiveDependents, subscribed,
                   skipEmit, skipReproxy, runningTransaction,
                   pendingTransactions, returned>>

Next ==
    \/ \E n \in Nodes, k \in Keys : \E nv \in WriteVals(n) : Write(n, k, nv)
    \/ \E n \in Nodes, k \in Keys : Delete(n, k)
    \/ \E n \in Nodes, kind \in Kinds : Subscribe(n, kind)
    \/ \E sr \in BOOLEAN :
          (MayBeginOutermost \/ MayBeginInTxn) /\ BeginSilent(sr)
    \/ EndSilent
    \/ MayBeginOutermost /\ BeginTransaction
    \/ EndTransaction

Spec == Init /\ [][Next]_vars

\* programs of one more write or delete, without listeners and outside
\* runSilent / runTransaction
InitMoves == Started(Program(MaxOps + 1, 0))
NextMoves ==
    \/ \E n \in Nodes, k \in Keys : \E nv \in WriteVals(n) : Write(n, k, nv)
    \/ \E n \in Nodes, k \in Keys : Delete(n, k)
SpecMoves == InitMoves /\ [][NextMoves]_vars

\* programs that subscribe one more listener, call each unsubscribe up to
\* MaxOps times and make one write or delete fewer
InitUnsub ==
    Started([Program(MaxOps - 1, MaxListeners + 1) EXCEPT !.offs = MaxOps])
NextUnsub ==
    \/ \E n \in Nodes, kind \in Kinds : Subscribe(n, kind)
    \/ \E l \in DOMAIN subscribed : Unsubscribe(l)
    \/ \E n \in Nodes, k \in Keys : \E nv \in WriteVals(n) : Write(n, k, nv)
    \/ \E n \in Nodes, k \in Keys : Delete(n, k)
SpecUnsub == InitUnsub /\ [][NextUnsub]_vars

\* programs whose function given to runSilent / runTransaction may throw
InitThrow == Started([Program(MaxOps, MaxListeners) EXCEPT !.throws = TRUE])
NextThrow ==
    \/ Next
    \/ Throw
SpecThrow == InitThrow /\ [][NextThrow]_vars

\* programs that subscribe one more listener, whose callbacks may throw, and
\* make one write or delete fewer
InitFault ==
    Started([Program(MaxOps - 1, MaxListeners + 1) EXCEPT !.faulty = TRUE])
NextFault ==
    \/ \E n \in Nodes, kind \in Kinds : Subscribe(n, kind)
    \/ \E n \in Nodes, kind \in Kinds : SubscribeFaulty(n, kind)
    \/ \E n \in Nodes, k \in Keys : \E nv \in WriteVals(n) : Write(n, k, nv)
    \/ \E n \in Nodes, k \in Keys : Delete(n, k)
SpecFault == InitFault /\ [][NextFault]_vars

\* programs whose root is an instance of a ReactiveNode class that declares
\* the object in its field a as its dependency, with or without comparisons,
\* and that listen to the root only
InitReactive ==
    \E c \in BOOLEAN :
        Started([Program(MaxOps, MaxListeners) EXCEPT !.derived = {1}, !.cmp = c])
NextReactive ==
    \/ \E n \in scope.derived, kind \in Kinds : Subscribe(n, kind)
    \/ \E n \in Nodes, k \in Keys : \E nv \in WriteVals(n) : Write(n, k, nv)
    \/ \E n \in Nodes, k \in Keys : Delete(n, k)
SpecReactive == InitReactive /\ [][NextReactive]_vars

\* programs that also write and delete through the snapshots of the nodes,
\* outside any call or inside one runSilent
InitSnap == Started(Program(MaxOps, MaxListeners))
NextSnap ==
    \/ \E n \in Nodes, kind \in Kinds : Subscribe(n, kind)
    \/ \E n \in Nodes, k \in Keys : \E nv \in WriteVals(n) : Write(n, k, nv)
    \/ \E n \in Nodes, k \in Keys : Delete(n, k)
    \/ \E n \in Nodes, k \in Keys : \E ver \in 1..reproxy[n] :
          \E nv \in WriteVals(n) : WriteVia(n, ver, k, nv)
    \/ \E n \in Nodes, k \in Keys : \E ver \in 1..reproxy[n] :
          DeleteVia(n, ver, k)
    \/ \E sr \in BOOLEAN : MayBeginOutermost /\ BeginSilent(sr)
    \/ EndSilent
SpecSnap == InitSnap /\ [][NextSnap]_vars

\* programs that also write null
InitNull == Started([Program(MaxOps, MaxListeners) EXCEPT !.nulls = TRUE])
NextNull ==
    \/ \E n \in Nodes, kind \in Kinds : Subscribe(n, kind)
    \/ \E n \in Nodes, k \in Keys : \E nv \in WriteVals(n) : Write(n, k, nv)
    \/ \E n \in Nodes, k \in Keys : Delete(n, k)
SpecNull == InitNull /\ [][NextNull]_vars

\* every raw object has at most the one base proxy
BuiltOnce == \A c \in Nodes : built[c] <= 1

\* programs of one more write or delete, without listeners, that also write
\* the raw objects they gave to the tree; a behaviour is followed until a raw
\* object has two base proxies
InitRewrap == Started([Program(MaxOps + 1, 0) EXCEPT !.rewrap = TRUE])
NextRewrap ==
    \/ BuiltOnce /\ \E n \in Nodes, k \in Keys :
                        \E nv \in WriteVals(n) : Write(n, k, nv)
    \/ BuiltOnce /\ \E n \in Nodes, k \in Keys : Delete(n, k)
SpecRewrap == InitRewrap /\ [][NextRewrap]_vars

\* programs that subscribe one more listener, also on objects that are in no
\* tree, and call clearListeners
InitClear == Started(Program(MaxOps, MaxListeners + 1))
NextClear ==
    \/ \E n \in Nodes, kind \in Kinds : Subscribe(n, kind)
    \/ \E o \in Nodes, kind \in Kinds : SubscribeUnwrapped(o, kind)
    \/ \E n \in Nodes, shallow \in BOOLEAN : UnsubscribeAll(n, shallow)
    \/ \E o \in Nodes : UnsubscribeAllUnwrapped(o)
    \/ \E n \in Nodes, k \in Keys : \E nv \in WriteVals(n) : Write(n, k, nv)
    \/ \E n \in Nodes, k \in Keys : Delete(n, k)
SpecClear == InitClear /\ [][NextClear]_vars

\* programs whose root is such a derived node, that subscribe one more
\* listener to it, and that call each unsubscribe once at most, or
\* clearListeners on the root
InitReactiveOff ==
    \E c \in BOOLEAN :
        Started([Program(MaxOps, MaxListeners + 1) EXCEPT
                    !.derived = {1}, !.cmp = c, !.offs = 1])
NextReactiveOff ==
    \/ \E n \in scope.derived, kind \in Kinds : Subscribe(n, kind)
    \/ \E l \in DOMAIN subscribed : Unsubscribe(l)
    \/ \E n \in scope.derived, shallow \in BOOLEAN : UnsubscribeAll(n, shallow)
    \/ \E n \in Nodes, k \in Keys : \E nv \in WriteVals(n) : Write(n, k, nv)
    \/ \E n \in Nodes, k \in Keys : Delete(n, k)
SpecReactiveOff == InitReactiveOff /\ [][NextReactiveOff]_vars

\* programs whose root is such a derived node, with comparisons whose number
\* depends on the dependency
InitVary ==
    Started([Program(MaxOps, MaxListeners) EXCEPT
                !.derived = {1}, !.cmp = TRUE, !.vary = TRUE])
SpecVary == InitVary /\ [][NextReactive]_vars

\* programs that subscribe one more listener, and whose callbacks may call an
\* unsubscribe
InitCancel ==
    Started([Program(MaxOps, MaxListeners + 1) EXCEPT !.cancel = TRUE])
NextCancel ==
    \/ \E n \in Nodes, kind \in Kinds : Subscribe(n, kind)
    \/ \E n \in Nodes, kind \in Kinds : \E m \in DOMAIN subscribed :
          SubscribeCanceller(n, kind, m)
    \/ \E n \in Nodes, k \in Keys : \E nv \in WriteVals(n) : Write(n, k, nv)
    \/ \E n \in Nodes, k \in Keys : Delete(n, k)
SpecCancel == InitCancel /\ [][NextCancel]_vars

\* programs in which the root and its child are instances of a ReactiveNode
\* class whose dependency is the same node X, the grandchild,
\*   get dependencies() { return [this.dependency(X)] }
\* or [this.dependency(X, [f(X)])],
\* and that subscribe one more listener
InitShared ==
    \E c \in BOOLEAN :
        Started([Program(MaxOps, MaxListeners + 1) EXCEPT
                    !.derived = {1, 2}, !.shared = 3, !.cmp = c])
NextShared ==
    \/ \E n \in Nodes, kind \in Kinds : Subscribe(n, kind)
    \/ \E n \in Nodes, k \in Keys : \E nv \in WriteVals(n) : Write(n, k, nv)
    \/ \E n \in Nodes, k \in Keys : Delete(n, k)
SpecShared == InitShared /\ [][NextShared]_vars

\* programs that write and delete inside one runTransaction only and whose
\* listeners, all for leaf changes, write to the node they are given
InitFlush == Started([Program(MaxOps, MaxListeners) EXCEPT !.rewrite = TRUE])
NextFlush ==
    \/ \E n \in Nodes : Subscribe(n, "nodeChanged")
    \/ MayBeginOutermost /\ BeginTransaction
    \/ EndTransaction
    \/ \E n \in Nodes, k \in Keys : \E nv \in WriteVals(n) :
          InTxn /\ Write(n, k, nv)
    \/ \E n \in Nodes, k \in Keys : InTxn /\ Delete(n, k)
SpecFlush == InitFlush /\ [][NextFlush]_vars

\* programs without listeners whose function given to runSilent may call
\* runSilent again, up to MaxOps calls deep
InitNested == Started(Program(MaxOps, 0))
NextNested ==
    \/ \E sr \in BOOLEAN : Len(block) < MaxOps /\ BeginSilent(sr)
    \/ EndSilent
    \/ \E n \in Nodes, k \in Keys : \E nv \in WriteVals(n) : Write(n, k, nv)
    \/ \E n \in Nodes, k \in Keys : Delete(n, k)
SpecNested == InitNested /\ [][NextNested]_vars

\* ------------------------------------------------------------------ claims
Muts == {"write", "delete"}
\* the last step was a write or delete that went through
Effective == last.op \in Muts /\ last.changed
\* the step ran inside runSilent(fn, true)
InSkipReproxy ==
    \E i \in 1..Len(block) : block[i].kind = "silent" /\ block[i].sr
\* invocations of listener l among cs
Count(cs, l) == Cardinality({i \in 1..Len(cs) : cs[i].lid = l})
\* the nodes on the parentOf chain above n (Retree.parent, repeatedly)
Above(n) == Ancestors(parentLink, n)
HasTreeListener(n) == treeChangedListeners[n] # <<>>

ReadsAs(x, v) ==
    IF IsObject(v) THEN x = Snap(v.v, reproxy[v.v]) ELSE x = v

\* C2: outside transactions and silent blocks, an effective write n.k = v
\* invokes every leaf-changed listener of n exactly once, during the write,
\* with n's new current snapshot, and reading k through it yields v.
C2_LeafListenerOnce ==
    (last.op = "write" /\ last.changed /\ block = <<>>) =>
        /\ \A i \in 1..Len(nodeChangedListeners[last.n]) :
              LET l == nodeChangedListeners[last.n][i]
              IN /\ Count(calls, l) = 1
                 /\ \A j \in 1..Len(calls) :
                       calls[j].lid = l =>
                          calls[j] = Call(l, "nodeChanged", last.n,
                                          reproxy[last.n])
        /\ ReadsAs(ReproxyGet(StOf, last.n, last.k), last.nv)

Listened(a) == \E t \in {a} \cup Above(a) : HasTreeListener(t)

C5_Idempotence ==
    (last.op = "write" /\ last.nv = last.rd) =>
        /\ calls = <<>> /\ ~last.deferred
        /\ minted = {}
        /\ relinked = {}

\* field k of n stores c: the raw object it was built with, or its wrapper
Holds(n, c) == \E k \in Keys : raw[n][k] \in {Raw(c), Px(c)}

\* C6: in every reachable state, for wrapped c and n, parentOf(c) is n if and
\* only if some field of n stores c.
C6_TopologyLaw ==
    \A c \in wrapped, n \in wrapped :
        GetParentInternal(parentLink, c) = n <=> Holds(n, c)

\* C7: when runTransaction returns, every leaf-changed listener of a node
\* that was effectively mutated more than once in the function has been
\* invoked exactly once by the flush and not while the function ran.
C7_TransactionCoalescing ==
    last.op = "endTxn" =>
        \A n \in Nodes :
            txMut[n] > 1 =>
                \A i \in 1..Len(nodeChangedListeners[n]) :
                    /\ Count(calls, nodeChangedListeners[n][i]) = 1
                    /\ Count(txBodyCalls, nodeChangedListeners[n][i]) = 0

\* C8: when runTransaction returns, every listener (each is registered for
\* one node and one kind) has been invoked at most once since the call began.
C8_AtMostOncePerTransaction ==
    last.op = "endTxn" =>
        \A l \in Lids : Count(txBodyCalls \o calls, l) <= 1

\* node 2 was mutated twice in the function and its listener was invoked
\* once at the flush
C8_Witness ==
    /\ last.op = "endTxn"
    /\ txMut[2] > 1
    /\ \E l \in Lids : subscribed[l].node = 2 /\ Count(calls, l) = 1

Detached ==
    /\ Effective /\ IsObject(last.prev)
    /\ raw[last.n][last.k] \notin {Raw(last.prev.v), Px(last.prev.v)}

\* C11: outside transactions and silent blocks, when a write or delete takes
\* the structured child c out of the field of n that stored it, every removed
\* listener of c and every leaf-changed listener of n is invoked exactly once.
C11_RemovedOnDetach ==
    (Detached /\ block = <<>>) =>
        /\ \A i \in 1..Len(nodeRemovedListeners[last.prev.v]) :
              Count(calls, nodeRemovedListeners[last.prev.v][i]) = 1
        /\ \A i \in 1..Len(nodeChangedListeners[last.n]) :
              Count(calls, nodeChangedListeners[last.n][i]) = 1

\* C12: inside runTransaction, after the field of A that stored c was deleted
\* or overwritten, assigning c (stored by no other node) to a field of another
\* node B raises no error and leaves parentOf(c) = B with c stored in B.
C12_MoveInTransaction ==
    (/\ last.op = "write" /\ last.rt /\ last.nv.t = "px"
     /\ \E d \in txDetached : d.c = last.nv.v /\ d.n # last.n
     /\ \A m \in wrapped \ {last.n} : ~Holds(m, last.nv.v)) =>
        /\ ~last.threw
        /\ GetParentInternal(parentLink, last.nv.v) = last.n
        /\ Holds(last.n, last.nv.v)

\* C13: assigning the wrapper of c to a field of Q raises an error exactly
\* when parentOf(c) before the write is a node other than Q.
C13_SingleParentError ==
    (last.op = "write" /\ last.nv.t = "px") =>
        (last.threw <=> last.pp \notin {0, last.n})

\* what a read of n.k must return: the wrapper of the child stored in k, else
\* the stored primitive, undefined when the field is absent
Stored(n, k) ==
    IF IsObject(raw[n][k]) THEN Px(raw[n][k].v) ELSE JsVal(raw[n][k])

\* C17: in every reachable state a read of field k of a wrapped node returns
\* the wrapper of the child stored in k, or the stored primitive or undefined;
\* so never a child that k stored before a delete or overwrite.
C17_ReadReturnsStored ==
    \A n \in wrapped, k \in Keys : BaseGet(StOf, n, k) = Stored(n, k)

\* what a trap did to the listeners, the snapshots and the parent links
Outcome(r) ==
    [threw |-> r.threw,
     calls |-> [l \in DOMAIN subscribed |-> Count(r.st.calls, l)],
     minted |-> {m \in Nodes : r.st.reproxy[m] # reproxy[m]},
     links |-> r.st.parentLink]

\* C18: wherever the program may mutate, `delete n.k` and `n.k = undefined`
\* invoke the same listeners as often, replace the same snapshots and leave
\* the same parent links, whatever k holds.
C18_DeleteLikeUndefined ==
    MayMutate =>
        \A n \in wrapped, k \in Keys :
            Outcome(DeleteTrap(StOf, n, k)) = Outcome(SetTrap(StOf, n, k, Undef))

\* C19: a write rejected with the single-parent error leaves the raw values,
\* the children maps, every parent link and every snapshot as they were and
\* invokes or defers no listener.
C19_NoPartialFailure ==
    (last.op = "write" /\ last.threw) =>
        /\ last.kept
        /\ relinked = {} /\ minted = {}
        /\ calls = <<>> /\ ~last.deferred

\* C16: a second or later call of the unsubscribe function returned by
\* Retree.on changes nothing: the listeners registered for every node and kind
\* are the ones that were registered before the call
C16_UnsubscribeIdempotent ==
    (last.op = "off" /\ subscribed[last.lid].offs >= 2) => last.same
\* C15: when the function given to runSilent or runTransaction throws, the
\* caller finds the three flags false and no pending transaction
C15_FlagsResetOnThrow ==
    (last.op = "throw" /\ block = <<>>) =>
        /\ ~skipEmit /\ ~skipReproxy /\ ~runningTransaction
        /\ pendingTransactions = <<>>
\* C20: when a callback throws during the notifications of a write or a
\* delete, every listener registered for the same node and kind is still
\* invoked, and the write or delete ends with an exception
C20_ListenerFaultIsolation ==
    last.op \in Muts =>
        \A i \in 1..Len(calls) :
            Throws(calls[i].lid) =>
                /\ \A l \in DOMAIN subscribed :
                      (/\ subscribed[l].node = calls[i].node
                       /\ subscribed[l].kind = calls[i].kind)
                          => Count(calls, l) >= 1
                /\ last.exc
\* the callbacks the program registered for leaf changes of node D
LeafListeners(D) ==
    {l \in DOMAIN subscribed :
        subscribed[l].node = D /\ subscribed[l].kind = "nodeChanged"}

\* D has a leaf listener and, at its previous evaluation, declared the node
\* that the last step changed as its dependency
DependsOnChanged(D) ==
    /\ Effective /\ ~last.se /\ ~last.rt
    /\ D \in scope.derived
    /\ LeafListeners(D) # {}
    /\ last.deps[D].set /\ last.deps[D].node = last.n

\* C14: outside runSilent and runTransaction, when a write or a delete changes
\* the node X that a derived node D with a leaf listener declared as its
\* dependency, every leaf listener of D is invoked once if the dependency has
\* no comparisons or f(X) is not the value recorded at D's previous
\* evaluation, and is not invoked otherwise
C14_DependencyLaw ==
    \A D \in Nodes :
        DependsOnChanged(D) =>
            \A l \in LeafListeners(D) :
                Count(calls, l) =
                    IF \/ ~last.deps[D].hasCmp
                       \/ Comparison(StOf, last.n) # last.deps[D].cmp
                    THEN 1 ELSE 0

C14_Witness ==
    \E D \in Nodes :
        /\ DependsOnChanged(D)
        /\ last.deps[D].hasCmp
        /\ Comparison(StOf, last.n) # last.deps[D].cmp
        /\ \E l \in LeafListeners(D) : Count(calls, l) = 1
\* the callbacks the program registered for the removal of a node other than c
RemovedListenersNot(c) ==
    {l \in DOMAIN subscribed :
        subscribed[l].kind = "nodeRemoved" /\ subscribed[l].node # c}

\* C22: a write or delete that detaches child c from node n invokes no removed
\* listener registered on a node other than c
C22_RemovalDoesNotPropagate ==
    Detached => \A l \in RemovedListenersNot(last.prev.v) : Count(calls, l) = 0

\* what the stored value of n.k reads as through a snapshot
StoredSnap(n, k) ==
    IF IsObject(raw[n][k]) THEN Snap(raw[n][k].v, reproxy[raw[n][k].v])
    ELSE JsVal(raw[n][k])

\* C24: reading field k through any snapshot of n, current or stale, returns
\* the current snapshot of the child stored in n.k, or the stored primitive
C24_ReadThrough ==
    \A n \in wrapped, k \in Keys :
        \A ver \in 1..reproxy[n] : SnapGet(StOf, n, ver, k) = StoredSnap(n, k)
\* the last step was a write or delete through a snapshot of last.n
ViaSnapshot == last.op \in Muts /\ last.via # 0

C29_NullIsLeaf ==
    (last.op = "write" /\ last.nv = Null) =>
        ~last.threw /\ raw[last.n][last.k] = Null
\* the nodes that hold raw object c in one of their fields
Holders(c) == {n \in wrapped : \E k \in Keys : raw[n][k] \in {Raw(c), Px(c)}}

\* C30: whatever the writes of raw objects or of wrappers, no raw object is
\* wrapped twice and none is attached under fields of two different parents
C30_OneWrapperOneParent ==
    \A c \in wrapped : built[c] = 1 /\ Cardinality(Holders(c)) <= 1
\* C27: subscribe and unsubscribeAll called with an object that was never
\* wrapped raise an error and leave the listener registry unchanged
C27_UnwrappedIsError ==
    (last.op \in {"on", "clear"} /\ last.n \notin wrapped) =>
        last.exc /\ last.same

\* no listener of any kind is registered on n
Unlistened(n) ==
    /\ nodeChangedListeners[n] = <<>>
    /\ treeChangedListeners[n] = <<>>
    /\ nodeRemovedListeners[n] = <<>>

\* C28: unsubscribeAll(node) completes without error and leaves no listener
\* of any kind on node and, when shallow is false, on any descendant of node
C28_UnsubscribeAllClears ==
    (last.op = "clear" /\ last.n \in wrapped) =>
        /\ ~last.exc
        /\ Unlistened(last.n)
        /\ ~last.shallow =>
              \A d \in Nodes : last.n \in Above(d) => Unlistened(d)
\* D has no leaf listener and no subtree listener
NoReactiveListener(D) ==
    nodeChangedListeners[D] = <<>> /\ treeChangedListeners[D] = <<>>

\* the internal listener of D is registered on some node
HasInternalListener(D) ==
    \E X \in Nodes : \E i \in 1..Len(nodeChangedListeners[X]) :
        nodeChangedListeners[X][i] = Internal(D)

\* C25: a derived node D without leaf and subtree listener has no recorded
\* dependency and no internal listener, and a write or delete on another node
\* mints no snapshot for it
C25_TeardownOnLastUnsubscribe ==
    \A D \in scope.derived :
        NoReactiveListener(D) =>
            /\ ~reactiveDependencies[D].set
            /\ ~HasInternalListener(D)
            /\ (last.op \in Muts /\ last.n # D) => D \notin minted
\* the callbacks the program registered for leaf or subtree changes of D
ChangeListeners(D) ==
    {l \in DOMAIN subscribed :
        subscribed[l].node = D
          /\ subscribed[l].kind \in {"nodeChanged", "treeChanged"}}

\* the last step changed D or its recorded dependency, so that the
\* dependencies of D were evaluated again, and the comparisons of the
\* dependency are not as many as were recorded
LengthDiffers(D) ==
    /\ Effective
    /\ D \in scope.derived
    /\ last.deps[D].set
    /\ last.n \in {D, last.deps[D].node}
    /\ Dependencies(StOf, D).len # last.deps[D].len

\* C26: when the dependencies of D are evaluated again and the comparisons of
\* a dependency are not as many as at the previous evaluation, the step
\* raises an error and no listener of D is invoked
C26_LengthChangeIsError ==
    \A D \in Nodes :
        LengthDiffers(D) =>
            last.exc /\ \A l \in ChangeListeners(D) : Count(calls, l) = 0
\* the callbacks whose unsubscribe was called by a callback of the last step
Cancelled ==
    {subscribed[calls[i].lid].cancels :
        i \in {j \in 1..Len(calls) : Cancels(calls[j].lid)}}

\* C21: in a leaf-changed or removed notification, every callback that was in
\* the list of the node when the notification started and was not
\* unsubscribed by a callback is invoked exactly once
C21_NoListenerSkipped ==
    \A i \in 1..Len(notified) :
        notified[i].kind \in {"nodeChanged", "nodeRemoved"} =>
            \A j \in 1..Len(notified[i].lids) :
                notified[i].lids[j] \notin Cancelled =>
                    Count(calls, notified[i].lids[j]) = 1

C21_Witness ==
    \E i \in 1..Len(notified) :
        /\ notified[i].kind \in {"nodeChanged", "nodeRemoved"}
        /\ Len(notified[i].lids) = 2
        /\ subscribed[notified[i].lids[1]].cancels = notified[i].lids[1]
        /\ notified[i].lids[2] \notin Cancelled
        /\ Count(calls, notified[i].lids[2]) = 1
\* C36: a write or delete made by a function that runSilent(fn, sr) is
\* executing finds skipEmit true and skipReproxy equal to sr, also after a
\* runSilent that the function called has returned
C36_SilentFlagsHold ==
    (last.op \in Muts /\ block # <<>> /\ block[Len(block)].kind = "silent") =>
        last.se /\ last.sr = block[Len(block)].sr

\* C37: every snapshot of a node was built on the canonical wrapper of the
\* node, so that its fields can be read without error
C37_SnapshotsOnWrapper ==
    \A n \in wrapped :
        /\ offBase[n] = {}
        /\ \A ver \in 1..reproxy[n], k \in Keys : SnapGet(StOf, n, ver, k) # Err
\* n holds c in k1 and in k2, and c was assigned to k2 last
HeldTwice(n, c, k1, k2) ==
    /\ k1 # k2
    /\ IsObject(raw[n][k1]) /\ raw[n][k1].v = c
    /\ IsObject(raw[n][k2]) /\ raw[n][k2].v = c
    /\ parentLink[c] = [obj |-> TRUE, proxyNode |-> n, propName |-> k2]
RemovedCalls(cs) == {i \in 1..Len(cs) : cs[i].kind = "nodeRemoved"}

\* C31: when n holds the wrapped child c in k1 and c was assigned to another
\* field k2 of n afterwards, a write or delete of n.k1 invokes no removed
\* listener and leaves n the parent of c
C31_ReattachIsNotRemoval ==
    [][\A n \in wrapped, c \in wrapped, k1 \in Keys, k2 \in Keys :
          (/\ HeldTwice(n, c, k1, k2)
           /\ nops' = nops + 1
           /\ last'.op \in Muts /\ last'.n = n /\ last'.k = k1) =>
              /\ GetParentInternal(parentLink', c) = n
              /\ RemovedCalls(calls') = {}]_vars
\* c was moved from last.k to the other field of last.n, last.k was then
\* overwritten or deleted, and c has a removed listener
C31_Witness ==
    /\ Effective /\ IsObject(last.prev)
    /\ nodeRemovedListeners[last.prev.v] # <<>>
    /\ \E k2 \in Keys \ {last.k} :
          /\ IsObject(raw[last.n][k2]) /\ raw[last.n][k2].v = last.prev.v
          /\ parentLink[last.prev.v] =
                [obj |-> TRUE, proxyNode |-> last.n, propName |-> k2]
    /\ ~(IsObject(raw[last.n][last.k]) /\ raw[last.n][last.k].v = last.prev.v)
\* C39: a write that stores in n.k the wrapper of a node c whose parent was
\* null, a detached node or a root, makes n the parent of c
C39_NullParentIsAdopted ==
    (/\ Effective /\ ~last.threw /\ last.op = "write"
     /\ last.nv.t = "px" /\ last.pp = 0) =>
        GetParentInternal(parentLink, last.nv.v) = last.n
\* C40: a callback is not invoked after its unsubscribe returned: no
\* invocation of a step follows an invocation of the same step whose callback
\* called the unsubscribe of that callback
C40_NoCallAfterUnsubscribe ==
    \A i \in 1..Len(calls), j \in 1..Len(calls) :
        (i < j /\ Cancels(calls[i].lid)) =>
            calls[j].lid # subscribed[calls[i].lid].cancels
\* the place of an invocation in the order of C38: the leaf-changed listeners
\* of n, the subtree-changed listeners of n, those of the 1st, 2nd, ... node
\* above n, and the removed listeners
Rank(c) ==
    IF c.kind = "nodeChanged" THEN 0
    ELSE IF c.kind = "treeChanged"
         THEN 1 + Cardinality(Above(last.n) \ Above(subscribed[c.lid].node))
    ELSE Cardinality(Nodes) + 1
\* l1 was subscribed before l2 to the same node and kind: the callbacks are
\* numbered in the order of the calls of Retree.on
Before(l1, l2) ==
    /\ subscribed[l1].node = subscribed[l2].node
    /\ subscribed[l1].kind = subscribed[l2].kind
    /\ l1 < l2

\* calls[i] and calls[j] are invocations of callbacks of the program, in the
\* order of C38
InOrder(i, j) ==
    (i < j /\ calls[i].lid > 0 /\ calls[j].lid > 0) =>
        \/ Rank(calls[i]) < Rank(calls[j])
        \/ /\ Rank(calls[i]) = Rank(calls[j])
           /\ \/ calls[i].lid = calls[j].lid
              \/ Before(calls[i].lid, calls[j].lid)
\* a derived node declared n as its dependency at its previous evaluation
DependedOn(n) ==
    \E D \in scope.derived : last.deps[D].set /\ last.deps[D].node = n

\* C38: outside transactions the invocations made by one write or delete of n
\* come in the order leaf-changed of n, subtree-changed of n, subtree-changed
\* of the nodes above n from the nearest up, removed; and in subscription
\* order within one node and kind
C38_InvocationOrderAlways ==
    (last.op \in Muts /\ ~InTxn) =>
        \A i \in 1..Len(calls), j \in 1..Len(calls) : InOrder(i, j)
\* C38, amended: the same when no derived node has n as its dependency
C38_InvocationOrder ==
    (last.op \in Muts /\ ~InTxn /\ ~DependedOn(last.n)) =>
        \A i \in 1..Len(calls), j \in 1..Len(calls) : InOrder(i, j)
\* one write or delete invoked a leaf-changed listener of n and then a
\* subtree-changed listener of a node above n
C38_Witness ==
    /\ Effective /\ block = <<>> /\ ~DependedOn(last.n) /\ Len(calls) = 2
    /\ calls[1].lid > 0 /\ calls[2].lid > 0
    /\ calls[1].kind = "nodeChanged" /\ subscribed[calls[1].lid].node = last.n
    /\ calls[2].kind = "treeChanged"
    /\ subscribed[calls[2].lid].node \in Above(last.n)
\* C34: outside runSilent and runTransaction, a write or delete on X invokes
\* each leaf-changed listener of a derived node that declared X as its
\* dependency once at most
C34_DependentNotifiedOnce ==
    (Effective /\ block = <<>>) =>
        \A D \in scope.derived :
            (last.deps[D].set /\ last.deps[D].node = last.n) =>
                \A l \in LeafListeners(D) : Count(calls, l) <= 1
\* C32: a write or delete on a derived node D that has no leaf-changed and no
\* subtree-changed listener, and no dependency subscription, creates none
C32_NoSubscriptionUnlistened ==
    (/\ last.op \in Muts /\ last.n \in scope.derived
     /\ NoReactiveListener(last.n) /\ ~last.deps[last.n].set) =>
        /\ ~reactiveDependencies[last.n].set
        /\ ~HasInternalListener(last.n)

\* C33: after an unsubscribe that leaves the derived node D with a
\* leaf-changed or subtree-changed listener, the dependency of D is still
\* subscribed
C33_KeptWhileListened ==
    (/\ last.op = "off" /\ last.n \in scope.derived
     /\ ~NoReactiveListener(last.n)) =>
        reactiveDependencies[last.n].set
\* no subtree-changed and no removed listener is registered
OnlyLeafListeners ==
    \A n \in Nodes : treeChangedListeners[n] = <<>> /\ nodeRemovedListeners[n] = <<>>

\* C35: with leaf-changed listeners only, when the outermost runTransaction
\* returns, the flush has invoked every leaf-changed listener of every node
\* that was effectively mutated during the call with the latest snapshot of
\* the node
C35_NothingLostAtFlush ==
    (last.op = "endTxn" /\ ~last.exc /\ block = <<>> /\ OnlyLeafListeners) =>
        \A n \in Nodes :
            (txMut[n] > 0 \/ n \in minted) =>
                \A i \in 1..Len(nodeChangedListeners[n]) :
                    \E j \in 1..Len(calls) :
                        /\ calls[j].lid = nodeChangedListeners[n][i]
                        /\ calls[j].ver = reproxy[n]
====
